---- MODULE Spec2Model ----
(***************************************************************************)
(* Model of packages/demucs-server/server.py: the streaming vocal-removal  *)
(* server.  State: the process-wide quality policy and its GPU fallback,   *)
(* the ModelPool, the PersistentLRUCache and its directory, the serve      *)
(* directory, the table of active sessions, the PredictiveProcessor and    *)
(* the threads (one per accepted /stream/start, plus the predictive        *)
(* worker) that run generate_streaming_chunks.                             *)
(*                                                                         *)
(* Units: chunk durations are kept in tenths of a second (2.5 s = 25),     *)
(* sample counts are exact, file sizes are in GiB.                         *)
(***************************************************************************)
EXTENDS Integers, Sequences, FiniteSets, TLC

\* ------------------------------------------------------------- bounds
\* distinct track ids a client may name
NumTracks == 3
\* /stream/start requests accepted for tracks that are not cached
MaxStarts == 2
\* largest encoded file, in GiB (one more than the cache capacity)
MaxFileSize == 11
\* longest decoded track, in seconds
MaxTrackSeconds == 5
\* length of a predict_next / tracks hint list
MaxHints == 2
\* items waiting in the predictive queue
MaxQueue == 2
\* decoded track length, in seconds, where one length is enough
TrackSeconds == 3
\* decoded length, in seconds, of a track of several 10 s chunks
LongTrackSeconds == 20
\* model instances loaded on a large CUDA device
MaxInstances == 2

\* ------------------------------------------------------------- program constants
SAMPLE_RATE == 44100
\* overlap_seconds = 0.5, in tenths of a second
OverlapTenths == 5
\* cache = PersistentLRUCache(max_size_gb=10.0), in GiB
MaxSizeGb == 10
\* chunk_seconds of the quality modes, in tenths of a second
ChunkQuality == 100
ChunkBalanced == 60
ChunkFast == 25

NoTrack == <<>>

\* ------------------------------------------------------------- track ids, file names
\* Track ids are sequences of characters.  Ids 1 and 3 differ only in a
\* character that is invalid in a file name.
TrackName(i) ==
    LET pad == [j \in 1..((i - 1) \div 3) |-> "x"]
    IN  CASE i % 3 = 1 -> <<"t">> \o pad \o <<":">>
          [] i % 3 = 2 -> <<"u">> \o pad
          [] OTHER     -> <<"t">> \o pad \o <<"_">>

Tracks == {TrackName(i) : i \in 1..NumTracks}

InvalidChars == {"\\", "/", ":", "*", "?", "\"", "<", ">", "|"}

sanitize_filename(name) ==
    [i \in 1..Len(name) |-> IF name[i] \in InvalidChars THEN "_" ELSE name[i]]

\* CACHE_DIR / f"{safe_track_id}.mp3" and SERVE_DIR / f"{safe_track_id}.mp3"
Mp3Name(id) == sanitize_filename(id) \o <<".mp3">>
\* SERVE_DIR / f"{safe_track_id}_stream.mp3"
StreamName(id) == sanitize_filename(id) \o <<"_stream", ".mp3">>
\* SERVE_DIR / f"{safe_track_id}_first.mp3"
FirstName(id) == sanitize_filename(id) \o <<"_first", ".mp3">>

\* a file: the number of audio samples it holds and its size on disk
File(len, size) == [len |-> len, size |-> size]

\* a directory d (a function from names to files) with one file written
WriteFile(d, name, f) == [n \in DOMAIN d \cup {name} |-> IF n = name THEN f ELSE d[n]]
\* a directory with one name unlinked (missing_ok)
Unlink(d, name) == [n \in DOMAIN d \ {name} |-> d[n]]

\* ------------------------------------------------------------- state
VARIABLES
    GPU_FAILED,               \* the fallback flag
    DEVICE,                   \* the process-wide device
    EFFECTIVE_MODE_NAME,
    EFFECTIVE_CHUNK_SECONDS,  \* in tenths of a second
    fbLock,                   \* GPU_FAILED_LOCK: the thread inside, or -1
    available,                \* model_pool.available: queue of free handle indexes
    locks,                    \* model_pool.locks: handle -> holding thread, or -1
    modelDevice,              \* handle -> device its model instance is on
    index,                    \* cache.index: sequence of entries, oldest first
    cacheDir,                 \* CACHE_DIR: name -> file
    lastUsed,                 \* history: the cached ids, least recently used first
    serveDir,                 \* SERVE_DIR: name -> file
    active_sessions,          \* track id -> session record
    pqueue,                   \* predictive_processor.queue
    processing,               \* predictive_processor.processing
    _stop,                    \* predictive_processor._stop
    thr                       \* threads: 0 the predictive worker, 1.. the session workers

policyVars == <<GPU_FAILED, DEVICE, EFFECTIVE_MODE_NAME, EFFECTIVE_CHUNK_SECONDS>>
poolVars == <<available, locks, modelDevice>>
cacheVars == <<index, cacheDir, lastUsed>>
predVars == <<pqueue, processing, _stop>>
vars == <<GPU_FAILED, DEVICE, EFFECTIVE_MODE_NAME, EFFECTIVE_CHUNK_SECONDS, fbLock,
          available, locks, modelDevice, index, cacheDir, lastUsed, serveDir,
          active_sessions, pqueue, processing, _stop, thr>>

Threads == 0..(MaxStarts + 1)
SessionThreads == 1..MaxStarts
PredThread == 0
\* the request thread that serves /clear-cache
ClearThread == MaxStarts + 1

\* a thread that runs nothing.  The last four fields record what the thread
\* has emitted on the socket: the value of its last 'progress' event (in
\* hundredths of a percent), the number of its 'first_chunk' and
\* 'chunk_updated' events, and whether it emitted 'complete'.
IdleThread ==
    [pc |-> "idle", track |-> NoTrack, total |-> 0, csamp |-> 0, nchunks |-> 0,
     cidx |-> 0, midx |-> 0, dev |-> "", fsize |-> 0, err |-> FALSE,
     prog |-> 0, first |-> 0, upd |-> 0, complete |-> FALSE]


\* ------------------------------------------------------------- startup
\* detect_hardware: the device and the number of model instances it yields
HardwareProfiles ==
    { [device |-> "cuda", instances |-> MaxInstances],
      [device |-> "cuda", instances |-> 1],
      [device |-> "mps",  instances |-> 1],
      [device |-> "cpu",  instances |-> 1] }

QualityModes == {"auto", "quality", "balanced", "fast"}

\* get_effective_settings: <<chunk_seconds, mode name>>
get_effective_settings(mode, device) ==
    CASE mode = "auto" /\ device = "cuda" -> <<ChunkQuality, "quality (GPU detected)">>
      [] mode = "auto" /\ device = "mps"  -> <<ChunkBalanced, "balanced (Apple Silicon)">>
      [] mode = "auto"                    -> <<ChunkFast, "fast (CPU mode)">>
      [] mode = "quality"                 -> <<ChunkQuality, mode>>
      [] mode = "balanced"                -> <<ChunkBalanced, mode>>
      [] OTHER                            -> <<ChunkFast, mode>>

\* The state when the server starts to serve: hardware detected, settings
\* computed, the pool initialized and benchmarked (benchFailed: the benchmark
\* raised a CUDA error, so trigger_gpu_fallback and move_to_cpu already ran),
\* the predictive worker started, the cache index empty.
InitWith(hw, mode, benchFailed) ==
    LET eff == get_effective_settings(mode, hw.device)
    IN  /\ GPU_FAILED = benchFailed
        /\ DEVICE = IF benchFailed THEN "cpu" ELSE hw.device
        /\ EFFECTIVE_MODE_NAME = IF benchFailed THEN "fast (CPU fallback)" ELSE eff[2]
        /\ EFFECTIVE_CHUNK_SECONDS = IF benchFailed THEN ChunkFast ELSE eff[1]
        /\ fbLock = -1
        /\ available = [i \in 1..hw.instances |-> i]
        /\ locks = [i \in 1..hw.instances |-> -1]
        /\ modelDevice = [i \in 1..hw.instances |-> IF benchFailed THEN "cpu" ELSE hw.device]
        /\ index = <<>>
        /\ cacheDir = <<>>
        /\ serveDir = <<>>
        /\ lastUsed = <<>>
        /\ active_sessions = <<>>
        /\ pqueue = <<>>
        /\ processing = {}
        /\ _stop = FALSE
        /\ thr = [w \in Threads |-> IdleThread]

\* ------------------------------------------------------------- PersistentLRUCache
Entry(id, path, size) == [id |-> id, path |-> path, size |-> size]

IndexIds(idx) == {idx[i].id : i \in 1..Len(idx)}

IndexPos(idx, id) == CHOOSE i \in 1..Len(idx) : idx[i].id = id

IndexRemove(idx, id) == SelectSeq(idx, LAMBDA e : e.id # id)

\* OrderedDict.move_to_end
MoveToEnd(idx, id) == Append(IndexRemove(idx, id), idx[IndexPos(idx, id)])

RECURSIVE SumSizes(_)
SumSizes(idx) == IF idx = <<>> THEN 0 ELSE Head(idx).size + SumSizes(Tail(idx))

_get_total_size(idx) == SumSizes(idx)

\* _evict_if_needed with the size of the new file left out of the test
RECURSIVE _evict_ignoring_new_size(_, _, _, _)
_evict_ignoring_new_size(idx, dir, new_size, max_size) ==
    IF _get_total_size(idx) > max_size /\ idx # <<>>
    THEN _evict_ignoring_new_size(Tail(idx), Unlink(dir, Head(idx).path), new_size, max_size)
    ELSE <<idx, dir>>

\* _evict_if_needed: <<index, directory>> after the eviction loop
RECURSIVE _evict_if_needed(_, _, _, _)
_evict_if_needed(idx, dir, new_size, max_size) ==
    IF _get_total_size(idx) + new_size > max_size /\ idx # <<>>
    THEN _evict_if_needed(Tail(idx), Unlink(dir, Head(idx).path), new_size, max_size)
    ELSE <<idx, dir>>

\* CACHE_INDEX_PATH = CACHE_DIR / "cache_index.json"
IndexName == <<"cache_index", ".json">>

\* _save_index: json.dump({'entries': list(self.index.items())}) into the
\* index file; the directory it leaves
_save_index(idx, dir) ==
    WriteFile(dir, IndexName,
              [entries |-> [i \in 1..Len(idx) |->
                              <<idx[i].id, [path |-> idx[i].path, size |-> idx[i].size]>>]])

\* _load_index: the index a restarted process builds from the directory,
\* OrderedDict(data.get('entries', [])), empty when there is no index file
_load_index(dir) ==
    IF IndexName \in DOMAIN dir
    THEN LET data == dir[IndexName].entries
         IN  [i \in 1..Len(data) |-> Entry(data[i][1], data[i][2].path, data[i][2].size)]
    ELSE <<>>

\* get: does it return a path
CacheGetHit(idx, dir, id) ==
    id \in IndexIds(idx) /\ idx[IndexPos(idx, id)].path \in DOMAIN dir

\* get without move_to_end
CacheGetIndex_NoPromote(idx, dir, id) ==
    IF id \in IndexIds(idx) /\ idx[IndexPos(idx, id)].path \notin DOMAIN dir
    THEN IndexRemove(idx, id)
    ELSE idx

\* get: the index it leaves (promotion on a hit, purge when the file is gone)
CacheGetIndex(idx, dir, id) ==
    IF id \in IndexIds(idx)
    THEN IF idx[IndexPos(idx, id)].path \in DOMAIN dir
         THEN MoveToEnd(idx, id)
         ELSE IndexRemove(idx, id)
    ELSE idx

\* put(track_id, file_path) for a file that exists: <<index, directory>>,
\* the index saved
CachePut(idx, dir, id, path, max_size) ==
    LET size == dir[path].size
        ev == _evict_if_needed(idx, dir, size, max_size)
        e == Entry(id, path, size)
        kept == ev[1]
        set == IF id \in IndexIds(kept)
               THEN [i \in 1..Len(kept) |-> IF kept[i].id = id THEN e ELSE kept[i]]
               ELSE Append(kept, e)
        new == MoveToEnd(set, id)
    IN  <<new, _save_index(new, ev[2])>>

\* the history of uses: id becomes the most recently used
Touch(seq, id) == Append(SelectSeq(seq, LAMBDA x : x # id), id)

\* the history of uses, of the ids that are in the index
Known(seq, idx) == SelectSeq(seq, LAMBDA x : x \in IndexIds(idx))

\* the history after get(id): a hit (the path is returned) is a use
UsedByGet(seq, id) ==
    Known(IF CacheGetHit(index, cacheDir, id) THEN Touch(seq, id) ELSE seq,
          CacheGetIndex(index, cacheDir, id))

\* the history after put(id) left the index idx: the insertion is a use
UsedByPut(seq, id, idx) == Known(Touch(seq, id), idx)

\* has
CacheHas(idx, dir, id) ==
    id \in IndexIds(idx) /\ idx[IndexPos(idx, id)].path \in DOMAIN dir

\* ------------------------------------------------------------- PredictiveProcessor.enqueue
Item(priority, id) == [priority |-> priority, track_id |-> id]

\* enqueue(track_id, url, priority): the queue it leaves
enqueue(q, id, priority) ==
    IF id \in processing \/ CacheHas(index, cacheDir, id)
    THEN q
    ELSE Append(q, Item(priority, id))

\* enqueue called for hints[k], hints[k+1], ... with priority base + position
RECURSIVE EnqueueHints(_, _, _, _)
EnqueueHints(q, hints, k, base) ==
    IF k > Len(hints) THEN q
    ELSE EnqueueHints(enqueue(q, hints[k], base + k - 1), hints, k + 1, base)

\* hint lists of a request
RECURSIVE SeqsUpTo(_, _)
SeqsUpTo(S, n) ==
    IF n = 0 THEN {<<>>}
    ELSE LET shorter == SeqsUpTo(S, n - 1)
         IN  shorter \cup {Append(s, x) : s \in shorter, x \in S}

Prefix(s, n) == SubSeq(s, 1, IF Len(s) < n THEN Len(s) ELSE n)


\* ------------------------------------------------------------- chunk windows
chunk_samples(tenths) == (tenths * SAMPLE_RATE) \div 10

overlap_samples == (OverlapTenths * SAMPLE_RATE) \div 10

Max(a, b) == IF a > b THEN a ELSE b
Min(a, b) == IF a < b THEN a ELSE b

\* num_chunks as generate_streaming_chunks computes it (// and % floor, as in Python)
num_chunks(total, cs, os) ==
    LET hop == cs - os
        n == Max(1, (total - os) \div hop)
    IN  IF (total - os) % hop > 0 THEN n + 1 ELSE n

start_idx(c, cs, os) == c * (cs - os)
end_idx(c, cs, os, total) == Min(start_idx(c, cs, os) + cs, total)
chunk_len(c, cs, os, total) == end_idx(c, cs, os, total) - start_idx(c, cs, os)

\* ------------------------------------------------------------- sessions
Session(status, progress, ready) ==
    [status |-> status, progress |-> progress, first_chunk_ready |-> ready]

\* the table with one field of track t's entry changed, if the entry exists
\* ("if track_id in active_sessions")
SessionSet(t, status, progress) ==
    IF t \in DOMAIN active_sessions
    THEN [active_sessions EXCEPT ![t].status = status, ![t].progress = progress]
    ELSE active_sessions

\* progress in hundredths of a percent: 10 + ((c + 1) / n * 100) / 100 * 85
ScaledProgress(c, n) == 1000 + (8500 * (c + 1)) \div n

\* ------------------------------------------------------------- threads
IsSession(w) == w \in SessionThreads

\* an except block that emits no 'error' for a session thread
AfterException_Silent(w) ==
    IF IsSession(w)
    THEN [thr[w] EXCEPT !.pc = "cleanup", !.err = FALSE, !.midx = 0, !.dev = ""]
    ELSE [IdleThread EXCEPT !.err = TRUE, !.track = thr[w].track]

\* where a thread stands after an exception left its pipeline: a session
\* thread has emitted 'error' and started its cleanup timer, the predictive
\* worker has printed the error of its track (line 516), discarded the track
\* and waits on the queue again
AfterException(w) ==
    IF IsSession(w)
    THEN [thr[w] EXCEPT !.pc = "cleanup", !.err = TRUE, !.midx = 0, !.dev = ""]
    ELSE [IdleThread EXCEPT !.err = TRUE, !.track = thr[w].track]

\* where a thread stands after its generator returned: a session thread has
\* emitted 'progress' 100 and 'complete' and started its cleanup timer
AfterReturn(w) ==
    IF IsSession(w)
    THEN [thr[w] EXCEPT !.pc = "cleanup", !.midx = 0, !.dev = "",
                        !.prog = 10000, !.complete = TRUE]
    ELSE IdleThread

\* the in-flight set left as it is when a thread leaves its pipeline
ProcessingKept(w) == processing

\* predictive_processor.processing after thread w left its pipeline (finally: discard)
ProcessingAfter(w) == IF IsSession(w) THEN processing ELSE processing \ {thr[w].track}

\* the next chunk, or the end of the loop
NextChunk(w) ==
    IF thr[w].cidx + 1 < thr[w].nchunks
    THEN [thr[w] EXCEPT !.cidx = @ + 1, !.pc = "get"]
    ELSE [thr[w] EXCEPT !.pc = "final"]

\* the lowest session thread not yet started
FreeThread == CHOOSE w \in SessionThreads :
                 thr[w].pc = "idle" /\ \A v \in SessionThreads : thr[v].pc = "idle" => w <= v


\* ------------------------------------------------------------- /stream/start
\* the cache-hit branch: promote, copy to the serve directory, queue the hints
StreamStartCached(t, hints) ==
    /\ CacheGetHit(index, cacheDir, t)
    /\ index' = CacheGetIndex(index, cacheDir, t)
    /\ lastUsed' = UsedByGet(lastUsed, t)
    /\ serveDir' = IF Mp3Name(t) \in DOMAIN serveDir
                   THEN serveDir
                   ELSE WriteFile(serveDir, Mp3Name(t), cacheDir[index[IndexPos(index, t)].path])
    /\ pqueue' = EnqueueHints(pqueue, Prefix(hints, 3), 1, 0)
    /\ Len(pqueue') <= MaxQueue
    /\ UNCHANGED <<policyVars, fbLock, poolVars, cacheDir, active_sessions, processing, thr, _stop>>

\* the miss branch: register the session, start the thread, queue the hints
StreamStartNew(t, hints) ==
    /\ ~CacheGetHit(index, cacheDir, t)
    /\ \E w \in SessionThreads : thr[w].pc = "idle"
    /\ index' = CacheGetIndex(index, cacheDir, t)
    /\ lastUsed' = UsedByGet(lastUsed, t)
    /\ active_sessions' = (t :> Session("starting", 0, FALSE)) @@ active_sessions
    /\ thr' = [thr EXCEPT ![FreeThread] = [IdleThread EXCEPT !.pc = "spawned", !.track = t]]
    /\ pqueue' = EnqueueHints(pqueue, Prefix(hints, 3), 1, 1)
    /\ Len(pqueue') <= MaxQueue
    /\ UNCHANGED <<policyVars, fbLock, poolVars, cacheDir, serveDir, processing, _stop>>

\* the miss branch taken without looking at the cache
StreamStartUnchecked(t, hints) ==
    /\ \E w \in SessionThreads : thr[w].pc = "idle"
    /\ index' = CacheGetIndex(index, cacheDir, t)
    /\ lastUsed' = UsedByGet(lastUsed, t)
    /\ active_sessions' = (t :> Session("starting", 0, FALSE)) @@ active_sessions
    /\ thr' = [thr EXCEPT ![FreeThread] = [IdleThread EXCEPT !.pc = "spawned", !.track = t]]
    /\ pqueue' = EnqueueHints(pqueue, Prefix(hints, 3), 1, 1)
    /\ Len(pqueue') <= MaxQueue
    /\ UNCHANGED <<policyVars, fbLock, poolVars, cacheDir, serveDir, processing, _stop>>

stream_start(t, hints) == StreamStartCached(t, hints) \/ StreamStartNew(t, hints)

\* the is_cached and is_complete fields of the answer
StartResponse(t) ==
    IF CacheGetHit(index, cacheDir, t)
    THEN [is_cached |-> TRUE, is_complete |-> TRUE]
    ELSE [is_cached |-> FALSE, is_complete |-> FALSE]

\* ------------------------------------------------------------- process_async
\* 'downloading' is recorded, then the decode begins
SetDownloading(w) ==
    /\ IsSession(w) /\ thr[w].pc = "spawned"
    /\ active_sessions' = SessionSet(thr[w].track, "downloading", 500)
    /\ thr' = [thr EXCEPT ![w].pc = "download", ![w].prog = 500]
    /\ UNCHANGED <<policyVars, fbLock, poolVars, cacheVars, serveDir, predVars>>

\* load_audio_from_url returned `seconds` of audio; a session records 'processing'
DecodeOk(w, seconds) ==
    /\ thr[w].pc = "download"
    /\ active_sessions' = IF IsSession(w)
                          THEN SessionSet(thr[w].track, "processing", 1000)
                          ELSE active_sessions
    /\ thr' = [thr EXCEPT ![w].total = seconds * SAMPLE_RATE,
                          ![w].prog = IF IsSession(w) THEN 1000 ELSE @,
                          ![w].pc = IF IsSession(w) THEN "stale" ELSE "gen"]
    /\ UNCHANGED <<policyVars, fbLock, poolVars, cacheVars, serveDir, predVars>>

\* load_audio_from_url raised (FFmpeg failed, timeout)
DecodeFail(w) ==
    /\ thr[w].pc = "download"
    /\ thr' = [thr EXCEPT ![w] = AfterException(w)]
    /\ processing' = ProcessingAfter(w)
    /\ UNCHANGED <<policyVars, fbLock, poolVars, cacheVars, serveDir, active_sessions, pqueue, _stop>>

\* the stale progressive file is deleted before the first chunk
DeleteStale(w) ==
    /\ IsSession(w) /\ thr[w].pc = "stale"
    /\ serveDir' = Unlink(serveDir, StreamName(thr[w].track))
    /\ thr' = [thr EXCEPT ![w].pc = "gen"]
    /\ UNCHANGED <<policyVars, fbLock, poolVars, cacheVars, active_sessions, predVars>>

\* ------------------------------------------------------------- generate_streaming_chunks
\* the generator's first lines: chunk size from the policy, number of chunks
GenStart(w) ==
    /\ thr[w].pc = "gen"
    /\ LET cs == chunk_samples(IF GPU_FAILED THEN ChunkFast ELSE EFFECTIVE_CHUNK_SECONDS)
       IN  thr' = [thr EXCEPT ![w].csamp = cs,
                              ![w].nchunks = num_chunks(thr[w].total, cs, overlap_samples),
                              ![w].cidx = 0,
                              ![w].pc = "get"]
    /\ UNCHANGED <<policyVars, fbLock, poolVars, cacheVars, serveDir, active_sessions, predVars>>

\* ModelPool.acquire, first line: idx = self.available.get() (blocks while empty)
PoolGet(w) ==
    /\ thr[w].pc = "get"
    /\ available # <<>>
    /\ available' = Tail(available)
    /\ thr' = [thr EXCEPT ![w].midx = Head(available), ![w].pc = "lock"]
    /\ UNCHANGED <<policyVars, fbLock, locks, modelDevice, cacheVars, serveDir,
                   active_sessions, predVars>>

\* ModelPool.acquire, second line: self.locks[idx].acquire(); then process_chunk
\* reads DEVICE
PoolLock(w) ==
    /\ thr[w].pc = "lock"
    /\ locks[thr[w].midx] = -1
    /\ locks' = [locks EXCEPT ![thr[w].midx] = w]
    /\ thr' = [thr EXCEPT ![w].dev = DEVICE, ![w].pc = "apply"]
    /\ UNCHANGED <<policyVars, fbLock, available, modelDevice, cacheVars, serveDir,
                   active_sessions, predVars>>

\* apply_model returned
ApplyOk(w) ==
    /\ thr[w].pc = "apply"
    /\ thr' = [thr EXCEPT ![w].pc = "unlock"]
    /\ UNCHANGED <<policyVars, fbLock, poolVars, cacheVars, serveDir, active_sessions, predVars>>

\* apply_model raised a RuntimeError naming CUDA: trigger_gpu_fallback is called
ApplyDeviceError(w) ==
    /\ thr[w].pc = "apply"
    /\ thr[w].dev = "cuda"
    /\ thr' = [thr EXCEPT ![w].pc = "fb"]
    /\ UNCHANGED <<policyVars, fbLock, poolVars, cacheVars, serveDir, active_sessions, predVars>>

\* apply_model raised another error: re-raised, the finally releases the handle
ApplyOtherError(w) ==
    /\ thr[w].pc = "apply"
    /\ thr' = [thr EXCEPT ![w].err = TRUE, ![w].pc = "unlock"]
    /\ UNCHANGED <<policyVars, fbLock, poolVars, cacheVars, serveDir, active_sessions, predVars>>

\* ------------------------------------------------------------- trigger_gpu_fallback
\* FbEnter without the "if GPU_FAILED: return" test
FbEnter_NoCheck(w) ==
    /\ thr[w].pc = "fb"
    /\ fbLock = -1
    /\ GPU_FAILED' = TRUE
    /\ fbLock' = w
    /\ thr' = [thr EXCEPT ![w].pc = "fb_device"]
    /\ UNCHANGED <<DEVICE, EFFECTIVE_MODE_NAME, EFFECTIVE_CHUNK_SECONDS, poolVars, cacheVars,
                   serveDir, active_sessions, predVars>>

\* with GPU_FAILED_LOCK: return if GPU_FAILED, else set it and go on to the
\* other three assignments
FbEnter(w) ==
    /\ thr[w].pc = "fb"
    /\ fbLock = -1
    /\ IF GPU_FAILED
       THEN /\ thr' = [thr EXCEPT ![w].pc = "retry"]
            /\ UNCHANGED <<GPU_FAILED, fbLock>>
       ELSE /\ GPU_FAILED' = TRUE
            /\ fbLock' = w
            /\ thr' = [thr EXCEPT ![w].pc = "fb_device"]
    /\ UNCHANGED <<DEVICE, EFFECTIVE_MODE_NAME, EFFECTIVE_CHUNK_SECONDS, poolVars, cacheVars,
                   serveDir, active_sessions, predVars>>

\* DEVICE = "cpu"
FbSetDevice(w) ==
    /\ thr[w].pc = "fb_device"
    /\ DEVICE' = "cpu"
    /\ thr' = [thr EXCEPT ![w].pc = "fb_mode"]
    /\ UNCHANGED <<GPU_FAILED, EFFECTIVE_MODE_NAME, EFFECTIVE_CHUNK_SECONDS, fbLock, poolVars,
                   cacheVars, serveDir, active_sessions, predVars>>

\* EFFECTIVE_MODE_NAME = "fast (CPU fallback)"
FbSetMode(w) ==
    /\ thr[w].pc = "fb_mode"
    /\ EFFECTIVE_MODE_NAME' = "fast (CPU fallback)"
    /\ thr' = [thr EXCEPT ![w].pc = "fb_chunk"]
    /\ UNCHANGED <<GPU_FAILED, DEVICE, EFFECTIVE_CHUNK_SECONDS, fbLock, poolVars,
                   cacheVars, serveDir, active_sessions, predVars>>

\* EFFECTIVE_CHUNK_SECONDS = 2.5, and the lock is left
FbSetChunk(w) ==
    /\ thr[w].pc = "fb_chunk"
    /\ EFFECTIVE_CHUNK_SECONDS' = ChunkFast
    /\ fbLock' = -1
    /\ thr' = [thr EXCEPT ![w].pc = "retry"]
    /\ UNCHANGED <<GPU_FAILED, DEVICE, EFFECTIVE_MODE_NAME, poolVars,
                   cacheVars, serveDir, active_sessions, predVars>>

\* ------------------------------------------------------------- process_chunk, the retry
\* model.to("cpu"), and apply_model on the CPU returned
RetryOk(w) ==
    /\ thr[w].pc = "retry"
    /\ modelDevice' = [modelDevice EXCEPT ![thr[w].midx] = "cpu"]
    /\ thr' = [thr EXCEPT ![w].dev = "cpu", ![w].pc = "unlock"]
    /\ UNCHANGED <<policyVars, fbLock, available, locks, cacheVars, serveDir,
                   active_sessions, predVars>>

\* a retry that raised is followed by another call of apply_model
RetryFail_Again(w) ==
    /\ thr[w].pc = "retry"
    /\ modelDevice' = [modelDevice EXCEPT ![thr[w].midx] = "cpu"]
    /\ thr' = [thr EXCEPT ![w].dev = "cpu", ![w].pc = "apply"]
    /\ UNCHANGED <<policyVars, fbLock, available, locks, cacheVars, serveDir,
                   active_sessions, predVars>>

\* model.to("cpu"), and apply_model on the CPU raised: not retried
RetryFail(w) ==
    /\ thr[w].pc = "retry"
    /\ modelDevice' = [modelDevice EXCEPT ![thr[w].midx] = "cpu"]
    /\ thr' = [thr EXCEPT ![w].dev = "cpu", ![w].err = TRUE, ![w].pc = "unlock"]
    /\ UNCHANGED <<policyVars, fbLock, available, locks, cacheVars, serveDir,
                   active_sessions, predVars>>


\* ------------------------------------------------------------- ModelPool.release
\* release that puts the handle back without releasing its lock
PoolUnlock_KeepLock(w) ==
    /\ thr[w].pc = "unlock"
    /\ thr' = [thr EXCEPT ![w].pc = "put"]
    /\ UNCHANGED <<policyVars, fbLock, poolVars, cacheVars, serveDir, active_sessions, predVars>>

\* finally: release, first line: self.locks[idx].release()
PoolUnlock(w) ==
    /\ thr[w].pc = "unlock"
    /\ locks' = [locks EXCEPT ![thr[w].midx] = -1]
    /\ thr' = [thr EXCEPT ![w].pc = "put"]
    /\ UNCHANGED <<policyVars, fbLock, available, modelDevice, cacheVars, serveDir,
                   active_sessions, predVars>>

\* PoolPut with the release outside the finally: a chunk that raised keeps its handle
PoolPut_NoFinally(w) ==
    /\ thr[w].pc = "put"
    /\ available' = IF thr[w].err THEN available ELSE Append(available, thr[w].midx)
    /\ LET t == thr[w]
           raised == t.err \/ chunk_len(t.cidx, t.csamp, overlap_samples, t.total) < 0
       IN  /\ thr' = [thr EXCEPT ![w] =
                        IF raised THEN AfterException(w)
                        ELSE IF IsSession(w)
                             THEN [t EXCEPT !.midx = 0, !.dev = "", !.pc = "progress"]
                             ELSE [NextChunk(w) EXCEPT !.midx = 0, !.dev = ""]]
           /\ processing' = IF raised THEN ProcessingAfter(w) ELSE processing
    /\ UNCHANGED <<policyVars, fbLock, locks, modelDevice, cacheVars, serveDir,
                   active_sessions, pqueue, _stop>>

\* release, second line: self.available.put(idx).  Then the exception of the
\* chunk, if any, leaves the generator; so does the RuntimeError torch.ones
\* raises for a chunk whose length came out negative.  Otherwise the chunk is
\* accumulated and encoded.
PoolPut(w) ==
    /\ thr[w].pc = "put"
    /\ available' = Append(available, thr[w].midx)
    /\ LET t == thr[w]
           raised == t.err \/ chunk_len(t.cidx, t.csamp, overlap_samples, t.total) < 0
       IN  /\ thr' = [thr EXCEPT ![w] =
                        IF raised THEN AfterException(w)
                        ELSE IF IsSession(w)
                             THEN [t EXCEPT !.midx = 0, !.dev = "", !.pc = "progress"]
                             ELSE [NextChunk(w) EXCEPT !.midx = 0, !.dev = ""]]
           /\ processing' = IF raised THEN ProcessingAfter(w) ELSE processing
    /\ UNCHANGED <<policyVars, fbLock, locks, modelDevice, cacheVars, serveDir,
                   active_sessions, pqueue, _stop>>

\* ------------------------------------------------------------- process_async, per chunk
\* progress_cb: the session's progress is rescaled into 10..95 and emitted
OnProgress(w) ==
    /\ IsSession(w) /\ thr[w].pc = "progress"
    /\ active_sessions' =
         IF thr[w].track \in DOMAIN active_sessions
         THEN [active_sessions EXCEPT
                 ![thr[w].track].progress = ScaledProgress(thr[w].cidx, thr[w].nchunks)]
         ELSE active_sessions
    /\ thr' = [thr EXCEPT ![w].pc = "write",
                          ![w].prog = ScaledProgress(thr[w].cidx, thr[w].nchunks)]
    /\ UNCHANGED <<policyVars, fbLock, poolVars, cacheVars, serveDir, predVars>>

\* progressive_path.write_bytes(chunk_data): the prefix up to the chunk's end;
\* after the first chunk, 'chunk_updated' is emitted
WriteProgressive(w) ==
    /\ IsSession(w) /\ thr[w].pc = "write"
    /\ LET t == thr[w]
       IN  /\ serveDir' = WriteFile(serveDir, StreamName(t.track),
                                    File(end_idx(t.cidx, t.csamp, overlap_samples, t.total), 0))
           /\ thr' = [thr EXCEPT ![w] = IF t.cidx = 0 THEN [t EXCEPT !.pc = "flag"]
                                        ELSE [NextChunk(w) EXCEPT !.upd = @ + 1]]
    /\ UNCHANGED <<policyVars, fbLock, poolVars, cacheVars, active_sessions, predVars>>

\* chunk_count == 1: first_chunk_ready and first_chunk_url are recorded if the
\* session entry exists, then 'first_chunk' is emitted
FirstChunkReady(w) ==
    /\ IsSession(w) /\ thr[w].pc = "flag"
    /\ active_sessions' =
         IF thr[w].track \in DOMAIN active_sessions
         THEN [active_sessions EXCEPT ![thr[w].track].first_chunk_ready = TRUE]
         ELSE active_sessions
    /\ thr' = [thr EXCEPT ![w] = [NextChunk(w) EXCEPT !.first = @ + 1]]
    /\ UNCHANGED <<policyVars, fbLock, poolVars, cacheVars, serveDir, predVars>>

\* ------------------------------------------------------------- generate_streaming_chunks, the end
\* cache_path.write_bytes(full_mp3); cache.put(track_id, cache_path)
Finalize(w, size) ==
    /\ thr[w].pc = "final"
    /\ LET t == thr[w]
           written == WriteFile(cacheDir, Mp3Name(t.track), File(t.total, size))
           put == CachePut(index, written, t.track, Mp3Name(t.track), MaxSizeGb)
       IN  /\ index' = put[1]
           /\ cacheDir' = put[2]
           /\ lastUsed' = UsedByPut(lastUsed, t.track, put[1])
           /\ thr' = [thr EXCEPT ![w].fsize = size, ![w].pc = "serve"]
    /\ UNCHANGED <<policyVars, fbLock, poolVars, serveDir, active_sessions, predVars>>

\* the generator returns without the copy in the serve directory
ServeReturnOnly(w) ==
    /\ thr[w].pc = "serve"
    /\ thr' = [thr EXCEPT ![w] = AfterReturn(w)]
    /\ processing' = ProcessingAfter(w)
    /\ UNCHANGED <<policyVars, fbLock, poolVars, cacheVars, serveDir, active_sessions, pqueue, _stop>>

\* serve_path.write_bytes(full_mp3); the generator returns, and a session
\* thread emits 'complete'
ServeWrite(w) ==
    /\ thr[w].pc = "serve"
    /\ serveDir' = WriteFile(serveDir, Mp3Name(thr[w].track), File(thr[w].total, thr[w].fsize))
    /\ thr' = [thr EXCEPT ![w] = AfterReturn(w)]
    /\ processing' = ProcessingAfter(w)
    /\ UNCHANGED <<policyVars, fbLock, poolVars, cacheVars, active_sessions, pqueue, _stop>>

\* the cleanup timer of a finished session thread fires: active_sessions.pop
Cleanup(w) ==
    /\ IsSession(w) /\ thr[w].pc = "cleanup"
    /\ active_sessions' = [t \in DOMAIN active_sessions \ {thr[w].track} |-> active_sessions[t]]
    /\ thr' = [thr EXCEPT ![w].pc = "done"]
    /\ UNCHANGED <<policyVars, fbLock, poolVars, cacheVars, serveDir, predVars>>

\* ------------------------------------------------------------- PredictiveProcessor._worker
\* item = self.queue.get(): skipped if being processed or cached, else processed
WorkerTake ==
    /\ thr[PredThread].pc = "idle"
    /\ ~_stop
    /\ pqueue # <<>>
    /\ pqueue' = Tail(pqueue)
    /\ LET id == Head(pqueue).track_id
       IN  IF id \in processing \/ CacheHas(index, cacheDir, id)
           THEN UNCHANGED <<processing, thr>>
           ELSE /\ processing' = processing \cup {id}
                /\ thr' = [thr EXCEPT ![PredThread] =
                             [IdleThread EXCEPT !.pc = "download", !.track = id]]
    /\ UNCHANGED <<policyVars, fbLock, poolVars, cacheVars, serveDir, active_sessions, _stop>>

\* ------------------------------------------------------------- /predict
predict(hints) ==
    /\ pqueue' = EnqueueHints(pqueue, Prefix(hints, 5), 1, 0)
    /\ Len(pqueue') <= MaxQueue
    /\ UNCHANGED <<policyVars, fbLock, poolVars, cacheVars, serveDir, active_sessions,
                   processing, thr, _stop>>

\* ------------------------------------------------------------- /stream/status
\* the status the handler answers with
StatusOf(t) ==
    IF CacheGetHit(index, cacheDir, t) THEN "complete"
    ELSE IF Mp3Name(t) \in DOMAIN serveDir THEN "complete"
    ELSE IF StreamName(t) \in DOMAIN serveDir THEN "processing"
    ELSE IF FirstName(t) \in DOMAIN serveDir THEN "processing"
    ELSE IF t \in DOMAIN active_sessions THEN "processing"
    ELSE IF t \in processing THEN "processing"
    ELSE "not_found"

\* the progress the handler answers with, in hundredths of a percent (-1: none)
StatusProgress(t) ==
    IF CacheGetHit(index, cacheDir, t) THEN 10000
    ELSE IF Mp3Name(t) \in DOMAIN serveDir THEN 10000
    ELSE IF StreamName(t) \in DOMAIN serveDir THEN 2000
    ELSE IF FirstName(t) \in DOMAIN serveDir THEN 2000
    ELSE IF t \in DOMAIN active_sessions THEN active_sessions[t].progress
    ELSE IF t \in processing THEN 1000
    ELSE -1

\* the id in the first_chunk_url the handler answers with: /serve/<id> (NoTrack: no such field)
StatusFirstChunk(t) ==
    IF CacheGetHit(index, cacheDir, t) \/ Mp3Name(t) \in DOMAIN serveDir THEN NoTrack
    ELSE IF StreamName(t) \in DOMAIN serveDir THEN t \o <<"_stream">>
    ELSE IF FirstName(t) \in DOMAIN serveDir THEN t \o <<"_first">>
    ELSE IF t \in DOMAIN active_sessions /\ active_sessions[t].first_chunk_ready
         THEN t \o <<"_stream">>
    ELSE NoTrack

\* the handler's effect: cache.get promotes or purges
stream_status(t) ==
    /\ index' = CacheGetIndex(index, cacheDir, t)
    /\ lastUsed' = UsedByGet(lastUsed, t)
    /\ UNCHANGED <<policyVars, fbLock, poolVars, cacheDir, serveDir, active_sessions,
                   predVars, thr>>

\* ------------------------------------------------------------- /serve
\* the file GET /serve/<id> sends: its directory and name (NoFile: 404)
NoFile == [dir |-> "", name |-> <<>>]

serve_audio(id) ==
    IF CacheGetHit(index, cacheDir, id)
    THEN [dir |-> "cache", name |-> index[IndexPos(index, id)].path]
    ELSE IF Mp3Name(id) \in DOMAIN serveDir THEN [dir |-> "serve", name |-> Mp3Name(id)]
    ELSE IF StreamName(id) \in DOMAIN serveDir THEN [dir |-> "serve", name |-> StreamName(id)]
    ELSE IF FirstName(id) \in DOMAIN serveDir THEN [dir |-> "serve", name |-> FirstName(id)]
    ELSE NoFile


\* ------------------------------------------------------------- sessions on a CPU host
\* decoded lengths: a track shorter than one hop, one as long as a hop, and
\* the longest
SessionSeconds == {1, 2, MaxTrackSeconds}

\* sizes of the encoded track, in GiB: a small file, and one that fills the cache
FinalSizes == {1, MaxSizeGb}

InitSession == InitWith([device |-> "cpu", instances |-> 1], "auto", FALSE)

NextSession ==
    \/ \E t \in Tracks : stream_start(t, <<>>)
    \/ \E t \in Tracks : stream_status(t)
    \/ \E w \in SessionThreads :
         \/ SetDownloading(w)
         \/ \E seconds \in SessionSeconds : DecodeOk(w, seconds)
         \/ DecodeFail(w)
         \/ DeleteStale(w)
         \/ GenStart(w)
         \/ PoolGet(w)
         \/ PoolLock(w)
         \/ ApplyOk(w)
         \/ ApplyOtherError(w)
         \/ PoolUnlock(w)
         \/ PoolPut(w)
         \/ OnProgress(w)
         \/ WriteProgressive(w)
         \/ FirstChunkReady(w)
         \/ \E size \in FinalSizes : Finalize(w, size)
         \/ ServeWrite(w)
         \/ Cleanup(w)

SpecSession == InitSession /\ [][NextSession]_vars


\* ------------------------------------------------------------- properties of sessions
\* a session thread between its start and the end of process_async's try block
InRun(w) == IsSession(w) /\ thr[w].pc \notin {"idle", "cleanup", "done"}

\* a running session thread that has written the progressive file at least once
HasWritten(w) ==
    /\ InRun(w)
    /\ \/ thr[w].pc \in {"flag", "final", "serve"}
       \/ thr[w].cidx >= 1 /\ thr[w].pc \in {"get", "lock", "apply", "unlock", "put", "progress", "write"}

\* C1: while a run of a track that has written the progressive file is still
\* going, every write to that track's progressive path stores audio at least
\* as long as the audio it replaces.
C1_ProgressiveNeverRegresses ==
    [][\A w \in SessionThreads :
         LET name == StreamName(thr[w].track)
         IN  (HasWritten(w) /\ name \in DOMAIN serveDir /\ name \in DOMAIN serveDir')
                => serveDir'[name].len >= serveDir[name].len]_vars

\* C2: while the thread started by a /stream/start request runs, a status
\* query for its track is never answered not_found.
C2_NeverNotFoundWhileRunning ==
    \A w \in SessionThreads : InRun(w) => StatusOf(thr[w].track) # "not_found"

\* C3: after a session thread ended with an exception, and until the session
\* entry is removed, the entry's status is error.
C3_FailedSessionIsError ==
    \A w \in SessionThreads :
        (thr[w].pc = "cleanup" /\ thr[w].err /\ thr[w].track \in DOMAIN active_sessions)
            => active_sessions[thr[w].track].status = "error"

AllowedTransitions ==
    { <<"starting", "downloading">>, <<"downloading", "processing">>,
      <<"processing", "complete">>,
      <<"starting", "error">>, <<"downloading", "error">>, <<"processing", "error">> }

\* C4: every change of the status recorded for a track is an allowed
\* transition; the status of an existing entry never moves backward.
C4_StatusTransitionsAllowed ==
    [][\A t \in Tracks :
         (t \in DOMAIN active_sessions /\ t \in DOMAIN active_sessions'
            /\ active_sessions'[t].status # active_sessions[t].status)
           => <<active_sessions[t].status, active_sessions'[t].status>> \in AllowedTransitions]_vars


\* the progressive file of track t as a client can reach it
ProgressiveFile(t) == [dir |-> "serve", name |-> StreamName(t)]

\* a client of track t is handed the progressive file: by a result read, or
\* by the first_chunk_url of a status answer
ExposesProgressive(t) ==
    \/ serve_audio(t) = ProgressiveFile(t)
    \/ /\ StatusFirstChunk(t) # NoTrack
       /\ serve_audio(StatusFirstChunk(t)) = ProgressiveFile(t)

\* no other session thread is in a run that writes the progressive path of w's track
OnlyRun(w) ==
    \A v \in SessionThreads \ {w} :
        InRun(v) => StreamName(thr[v].track) # StreamName(thr[w].track)

\* C12: from the moment a start request for a track that is not cached is
\* accepted until the new run writes its first chunk, no status answer and no
\* result read hands out a progressive file: whatever lies at the progressive
\* path then is left over from an earlier run.
C12_NoLeftoverObservable ==
    \A w \in SessionThreads :
        (thr[w].pc \in {"spawned", "download", "stale", "gen"} /\ OnlyRun(w))
            => ~ExposesProgressive(thr[w].track)

\* ------------------------------------------------------------- the pool on a CUDA host
\* CUDA hosts with DEMUCS_QUALITY=fast, with one model instance or with
\* MaxInstances; the session threads of one track share the pool, and
\* apply_model may raise CUDA errors.
InitPool ==
    \E n \in {1, MaxInstances} :
        InitWith([device |-> "cuda", instances |-> n], "fast", FALSE)

NextPool ==
    \/ stream_start(TrackName(1), <<>>)
    \/ \E w \in SessionThreads :
         \/ SetDownloading(w)
         \/ DecodeOk(w, TrackSeconds)
         \/ DecodeFail(w)
         \/ DeleteStale(w)
         \/ GenStart(w)
         \/ PoolGet(w)
         \/ PoolLock(w)
         \/ ApplyOk(w)
         \/ ApplyDeviceError(w)
         \/ ApplyOtherError(w)
         \/ FbEnter(w)
         \/ FbSetDevice(w)
         \/ FbSetMode(w)
         \/ FbSetChunk(w)
         \/ RetryOk(w)
         \/ RetryFail(w)
         \/ PoolUnlock(w)
         \/ PoolPut(w)
         \/ OnProgress(w)
         \/ WriteProgressive(w)
         \/ FirstChunkReady(w)
         \/ Finalize(w, 1)
         \/ ServeWrite(w)
         \/ Cleanup(w)

SpecPool == InitPool /\ [][NextPool]_vars


\* ------------------------------------------------------------- properties of the pool
Handles == DOMAIN locks

\* occurrences of handle h in the free queue
InQueue(h) == Cardinality({i \in 1..Len(available) : available[i] = h})

\* threads that took handle h from the free queue and have not put it back
Holders(h) == {w \in Threads : thr[w].midx = h}

\* between model_pool.acquire() and the end of model_pool.release()
InChunk(w) ==
    thr[w].pc \in {"lock", "apply", "fb", "fb_device", "fb_mode", "fb_chunk", "retry", "unlock", "put"}

\* C6: each handle is either in the free queue or held by exactly one thread
\* that is processing a chunk; its lock is held by that thread only; a thread
\* outside a chunk (ended normally, after a CPU retry, or by an exception)
\* holds nothing, so free + held = N.
C6_HandlesPaired ==
    /\ \A h \in Handles :
         /\ InQueue(h) + Cardinality(Holders(h)) = 1
         /\ locks[h] # -1 => locks[h] \in Holders(h)
    /\ \A w \in Threads : thr[w].midx # 0 <=> InChunk(w)
    /\ Len(available) + Cardinality({w \in Threads : thr[w].midx # 0}) = Cardinality(Handles)

\* a thread is inside apply_model while another ended its chunk by an
\* exception after the fallback, and has given its handle back
C6_Witness ==
    \E w, v \in SessionThreads :
        /\ thr[w].pc = "apply"
        /\ thr[v].pc = "cleanup" /\ thr[v].err /\ thr[v].cidx = 1
        /\ GPU_FAILED
        /\ Len(available) = Cardinality(Handles) - 1

\* C7: the policy is mutated once, by the first caller of
\* trigger_gpu_fallback: a thread begins the assignments only while GPU_FAILED
\* is false, and sets it; only the thread inside GPU_FAILED_LOCK changes the
\* policy; GPU_FAILED never becomes false again; once the first caller has
\* left the lock DEVICE is cpu, the mode and chunk size are the fallback ones,
\* and nothing changes them any more.
C7_FallbackOnce ==
    [][/\ GPU_FAILED => GPU_FAILED'
       /\ \A w \in Threads :
            (thr[w].pc # "fb_device" /\ thr'[w].pc = "fb_device") => (~GPU_FAILED /\ GPU_FAILED')
       /\ policyVars' # policyVars => (fbLock' # -1 \/ fbLock # -1)
       /\ DEVICE = "cpu" => DEVICE' = "cpu"
       /\ (GPU_FAILED /\ fbLock = -1) =>
             /\ DEVICE = "cpu"
             /\ EFFECTIVE_MODE_NAME = "fast (CPU fallback)"
             /\ EFFECTIVE_CHUNK_SECONDS = ChunkFast
             /\ policyVars' = policyVars]_vars

\* two threads have both called trigger_gpu_fallback and returned from it
C7_Witness ==
    \E w, v \in SessionThreads :
        w # v /\ thr[w].pc = "retry" /\ thr[v].pc = "retry" /\ GPU_FAILED /\ fbLock = -1


\* ------------------------------------------------------------- the cache alone
\* generate_streaming_chunks, lines 760-762, for a finished track: the encoded
\* file is written to CACHE_DIR and put into the cache
cache_put(t, seconds, size) ==
    /\ LET written == WriteFile(cacheDir, Mp3Name(t), File(seconds * SAMPLE_RATE, size))
           put == CachePut(index, written, t, Mp3Name(t), MaxSizeGb)
       IN  /\ index' = put[1]
           /\ cacheDir' = put[2]
           /\ lastUsed' = UsedByPut(lastUsed, t, put[1])
    /\ UNCHANGED <<policyVars, fbLock, poolVars, serveDir, active_sessions, predVars, thr>>

\* file sizes, in GiB: empty, about a third and a half of the capacity (so
\* that two or three files fill it exactly or exceed it by one), the capacity
\* itself, and the largest file, which exceeds it
FileSizes ==
    {0, MaxSizeGb \div 3, MaxSizeGb \div 3 + 1, MaxSizeGb \div 2, MaxSizeGb \div 2 + 1,
     MaxSizeGb, MaxFileSize}

\* put and get called in any order, for files of these sizes; get is called by
\* the status handler
NextCache ==
    \/ \E t \in Tracks, size \in FileSizes : cache_put(t, TrackSeconds, size)
    \/ \E t \in Tracks : stream_status(t)

SpecCache == InitSession /\ [][NextCache]_vars

\* C5: the recorded sizes of the index entries sum to at most max_size_bytes,
\* or the index holds exactly one entry, whose size alone exceeds max_size_bytes.
C5_CacheSizeBounded ==
    \/ _get_total_size(index) <= MaxSizeGb
    \/ Len(index) = 1 /\ index[1].size > MaxSizeGb

\* the cache is full to the byte with two entries or more, after an eviction:
\* one entry's file is gone, unlinked when an older entry with the same
\* sanitized file name was evicted
C5_Witness ==
    /\ Len(index) >= 2
    /\ _get_total_size(index) = MaxSizeGb
    /\ \E i \in 1..Len(index) : index[i].path \notin DOMAIN cacheDir

\* ------------------------------------------------------------- the predictive processor
HintLists == SeqsUpTo(Tracks, MaxHints)

\* A CPU host: one session at a time next to the predictive worker; start
\* requests carry hint lists and /predict is called.
NextPredict ==
    \/ \E t \in Tracks, hints \in HintLists : thr[1].pc = "idle" /\ stream_start(t, hints)
    \/ \E hints \in HintLists : predict(hints)
    \/ WorkerTake
    \/ \E w \in {PredThread, 1} :
         \/ SetDownloading(w)
         \/ DecodeOk(w, TrackSeconds)
         \/ DecodeFail(w)
         \/ DeleteStale(w)
         \/ GenStart(w)
         \/ PoolGet(w)
         \/ PoolLock(w)
         \/ ApplyOk(w)
         \/ ApplyOtherError(w)
         \/ PoolUnlock(w)
         \/ PoolPut(w)
         \/ OnProgress(w)
         \/ WriteProgressive(w)
         \/ FirstChunkReady(w)
         \/ Finalize(w, 1)
         \/ ServeWrite(w)
         \/ Cleanup(w)

SpecPredict == InitSession /\ [][NextPredict]_vars

\* items waiting in the queue for track t
Waiting(q, t) == Cardinality({i \in 1..Len(q) : q[i].track_id = t})

\* C8: no step adds an item to the queue for a track that is cached, is being
\* processed by the predictive worker, or has an active session.
C8_EnqueueRejectsInFlight ==
    [][\A t \in Tracks :
         (CacheHas(index, cacheDir, t) \/ t \in processing \/ t \in DOMAIN active_sessions)
            => Waiting(pqueue', t) <= Waiting(pqueue, t)]_vars

\* C9: the queue holds at most one waiting item for a track.
C9_OneItemPerTrack == \A t \in Tracks : Waiting(pqueue, t) <= 1

\* C10: the item the worker takes has the lowest priority value among the
\* waiting items (the queue is first-in first-out among equal priorities).
C10_LowestPriorityFirst ==
    [][(pqueue # <<>> /\ pqueue' = Tail(pqueue))
         => \A i \in 1..Len(pqueue) : Head(pqueue).priority <= pqueue[i].priority]_vars

\* ------------------------------------------------------------- start requests with hints
\* A CPU host without /predict calls and with the predictive worker never
\* scheduled: the queue only grows, and only by the hints of start requests.
\* A start request arrives when no run is going and no cleanup timer is
\* pending; the decoder and the model do not fail.
NoRun == \A w \in SessionThreads : thr[w].pc \in {"idle", "done"}

\* hint lists of these start requests: none, or one track
StartHints == {<<>>} \cup {<<t>> : t \in Tracks}

NextStart ==
    \/ \E t \in Tracks, hints \in StartHints : NoRun /\ stream_start(t, hints)
    \/ \E w \in SessionThreads :
         \/ SetDownloading(w)
         \/ DecodeOk(w, TrackSeconds)
         \/ DeleteStale(w)
         \/ GenStart(w)
         \/ PoolGet(w)
         \/ PoolLock(w)
         \/ ApplyOk(w)
         \/ PoolUnlock(w)
         \/ PoolPut(w)
         \/ OnProgress(w)
         \/ WriteProgressive(w)
         \/ FirstChunkReady(w)
         \/ Finalize(w, 1)
         \/ ServeWrite(w)
         \/ Cleanup(w)

SpecStart == InitSession /\ [][NextStart]_vars

\* C11: a start request for a track that is in the cache with its file is
\* answered is_cached and is_complete, registers no session, starts no thread,
\* takes no pool handle and queues nothing for that track.
C11_CachedStartDoesNothing ==
    [][\A t \in Tracks, hints \in StartHints :
         (CacheGetHit(index, cacheDir, t) /\ stream_start(t, hints)) =>
            /\ StartResponse(t).is_cached /\ StartResponse(t).is_complete
            /\ UNCHANGED <<active_sessions, thr, poolVars>>
            /\ Waiting(pqueue', t) = Waiting(pqueue, t)]_vars

\* a start request for a cached track has queued its first hint (priority 0;
\* the hints of a request that missed the cache start at priority 1), and a
\* cached track whose run is over has no session
C11_Witness ==
    /\ \E i \in 1..Len(pqueue) : pqueue[i].priority = 0
    /\ \E t \in Tracks :
         /\ CacheHas(index, cacheDir, t)
         /\ t \notin DOMAIN active_sessions
         /\ \A w \in SessionThreads : thr[w].pc \in {"idle", "done"}

\* C13: a run emits 'first_chunk' once: when it does, it has emitted neither
\* 'first_chunk' nor 'chunk_updated' before, the progressive file is written
\* and the session entry of the track records first_chunk_ready; every
\* 'chunk_updated' follows the 'first_chunk' of its run; a run that ends after
\* at least one chunk has emitted it.
C13_FirstChunkOnce ==
    [][\A w \in SessionThreads :
         LET t == thr[w].track
         IN  /\ thr'[w].first # thr[w].first =>
                  /\ thr[w].first = 0 /\ thr[w].upd = 0 /\ thr'[w].first = 1
                  /\ StreamName(t) \in DOMAIN serveDir'
                  /\ t \in DOMAIN active_sessions'
                  /\ active_sessions'[t].first_chunk_ready
             /\ thr'[w].upd # thr[w].upd => thr[w].first = 1
             /\ (thr[w].pc # "cleanup" /\ thr'[w].pc = "cleanup"
                   /\ (thr[w].cidx >= 1 \/ thr[w].pc = "serve"))
                  => thr'[w].first = 1]_vars

\* ------------------------------------------------------------- runs that complete
\* A CPU host; start requests without hints arrive when no run is going, the
\* decoder and the model do not fail, and the encoded tracks are small or
\* fill the cache, so that a later run evicts the result of an earlier one.
NextComplete ==
    \/ \E t \in Tracks : NoRun /\ stream_start(t, <<>>)
    \/ \E w \in SessionThreads :
         \/ SetDownloading(w)
         \/ DecodeOk(w, TrackSeconds)
         \/ DeleteStale(w)
         \/ GenStart(w)
         \/ PoolGet(w)
         \/ PoolLock(w)
         \/ ApplyOk(w)
         \/ PoolUnlock(w)
         \/ PoolPut(w)
         \/ OnProgress(w)
         \/ WriteProgressive(w)
         \/ FirstChunkReady(w)
         \/ \E size \in FinalSizes : Finalize(w, size)
         \/ ServeWrite(w)
         \/ Cleanup(w)

SpecComplete == InitSession /\ [][NextComplete]_vars

\* C14: 'complete' is emitted by a thread that is past its cache.put (which
\* has saved the index), and from the state in which it is emitted on, a
\* status query for the track is answered complete.
C14_CompleteAfterPut ==
    [][\A w \in SessionThreads :
         /\ (~thr[w].complete /\ thr'[w].complete) =>
               /\ thr[w].pc = "serve"
               /\ IndexName \in DOMAIN cacheDir
         /\ thr'[w].complete => StatusOf(thr[w].track)' = "complete"]_vars

\* a run has emitted 'complete' and its cache entry has been evicted since
C14_Witness ==
    \E w \in SessionThreads :
        /\ thr[w].complete
        /\ thr[w].track \notin IndexIds(index)
        /\ Mp3Name(thr[w].track) \notin DOMAIN cacheDir

\* C15: while a run of a track goes on, the progress values it emits and the
\* progress a status query for the track is answered with stay within 0..100
\* percent and do not decrease from one state to the next.
C15_ProgressMonotone ==
    [][\A w \in SessionThreads :
         (InRun(w) /\ InRun(w)') =>
            /\ thr'[w].prog \in 0..10000
            /\ thr'[w].prog >= thr[w].prog
            /\ StatusProgress(thr[w].track)' \in 0..10000
            /\ StatusProgress(thr[w].track)' >= StatusProgress(thr[w].track)]_vars

\* ------------------------------------------------------------- fallback in the middle of a run
\* A CUDA host with DEMUCS_QUALITY=auto (10 s chunks) and one model instance;
\* the runs of one track of several chunks, and apply_model may raise CUDA
\* errors.
InitFallback == InitWith([device |-> "cuda", instances |-> 1], "auto", FALSE)

NextFallback ==
    \/ stream_start(TrackName(1), <<>>)
    \/ \E w \in SessionThreads :
         \/ SetDownloading(w)
         \/ DecodeOk(w, LongTrackSeconds)
         \/ DecodeFail(w)
         \/ DeleteStale(w)
         \/ GenStart(w)
         \/ PoolGet(w)
         \/ PoolLock(w)
         \/ ApplyOk(w)
         \/ ApplyDeviceError(w)
         \/ ApplyOtherError(w)
         \/ FbEnter(w)
         \/ FbSetDevice(w)
         \/ FbSetMode(w)
         \/ FbSetChunk(w)
         \/ RetryOk(w)
         \/ RetryFail(w)
         \/ PoolUnlock(w)
         \/ PoolPut(w)
         \/ OnProgress(w)
         \/ WriteProgressive(w)
         \/ FirstChunkReady(w)
         \/ Finalize(w, 1)
         \/ ServeWrite(w)
         \/ Cleanup(w)

SpecFallback == InitFallback /\ [][NextFallback]_vars

\* C16: a run goes on after the fallback (the chunk that failed is retried on
\* the CPU, the next chunks follow), and every chunk a thread begins once the
\* fallback has been carried out has the fallback length of 2.5 s.
C16_ChunksShrinkAfterFallback ==
    [][\A w \in SessionThreads :
         /\ (thr[w].pc = "fb_chunk" /\ thr'[w].pc # "fb_chunk") => thr'[w].pc = "retry"
         /\ (thr[w].pc = "lock" /\ thr'[w].pc = "apply" /\ GPU_FAILED /\ fbLock = -1)
               => thr'[w].csamp = chunk_samples(ChunkFast)]_vars

\* C17: once the fallback has been triggered (GPU_FAILED is set), every chunk
\* a thread begins is attempted on the CPU: process_chunk reads DEVICE = cpu.
C17_CpuOnlyAfterFallback ==
    [][\A w \in Threads :
         (thr[w].pc = "lock" /\ thr'[w].pc = "apply" /\ GPU_FAILED)
            => thr'[w].dev = "cpu"]_vars

\* ------------------------------------------------------------- properties of the chunk plan
\* ceil(a / b) for b > 0
CeilDiv(a, b) == -((-a) \div b)

\* C18: the number of chunks a generator plans is
\* max(1, ceil((T - overlap_samples) / hop_samples)).
C18_NumChunksFormula ==
    \A w \in Threads :
        thr[w].nchunks > 0 =>
            thr[w].nchunks =
                Max(1, CeilDiv(thr[w].total - overlap_samples, thr[w].csamp - overlap_samples))

\* C19: every progressive emission after the first is strictly longer than
\* the one before it, the last emission covers the T samples of the track,
\* and a run whose decoder and model do not fail reaches its final output (no
\* chunk window raises).
C19_PrefixesGrowToTotal ==
    [][\A w \in SessionThreads :
         LET t == thr[w]
         IN  /\ (t.pc = "write" /\ thr'[w].pc # "write" /\ t.cidx >= 1) =>
                    end_idx(t.cidx, t.csamp, overlap_samples, t.total)
                      > end_idx(t.cidx - 1, t.csamp, overlap_samples, t.total)
             /\ (t.pc # "final" /\ thr'[w].pc = "final") =>
                    end_idx(t.cidx, t.csamp, overlap_samples, t.total) = t.total
             /\ (t.pc = "put" /\ ~t.err) => ~thr'[w].err]_vars

\* ------------------------------------------------------------- the persisted index
\* the keys of an index, in recency order
KeyOrder(idx) == [i \in 1..Len(idx) |-> idx[i].id]

\* C20: after every cache operation the index a restart would load from the
\* index file has the keys of the index in memory, in the same recency order.
C20_SnapshotMatchesIndex == KeyOrder(_load_index(cacheDir)) = KeyOrder(index)

\* ------------------------------------------------------------- has() next to get and put
\* _worker, lines 500-507, at the grain of has's index accesses: the item is
\* taken, `track_id in self.processing` is read, and has (line 462, no lock)
\* evaluates `track_id in self.index`; a track found there is looked up next
WorkerHasTest ==
    /\ thr[PredThread].pc = "idle"
    /\ ~_stop
    /\ pqueue # <<>>
    /\ pqueue' = Tail(pqueue)
    /\ LET id == Head(pqueue).track_id
       IN  IF id \in processing
           THEN UNCHANGED <<processing, thr>>
           ELSE IF id \in IndexIds(index)
           THEN /\ thr' = [thr EXCEPT ![PredThread] =
                             [IdleThread EXCEPT !.pc = "has", !.track = id]]
                /\ UNCHANGED processing
           ELSE /\ processing' = processing \cup {id}
                /\ thr' = [thr EXCEPT ![PredThread] =
                             [IdleThread EXCEPT !.pc = "download", !.track = id]]
    /\ UNCHANGED <<policyVars, fbLock, poolVars, cacheVars, serveDir, active_sessions, _stop>>

\* has, second half: Path(self.index[track_id]['path']).exists(). A key that
\* is gone raises KeyError, which _worker catches and prints (lines 522-523)
\* before it waits on the queue again.
WorkerHasLookup ==
    /\ thr[PredThread].pc = "has"
    /\ LET id == thr[PredThread].track
       IN  IF id \notin IndexIds(index)
           THEN /\ thr' = [thr EXCEPT ![PredThread] =
                             [IdleThread EXCEPT !.err = TRUE, !.track = id]]
                /\ UNCHANGED processing
           ELSE IF index[IndexPos(index, id)].path \in DOMAIN cacheDir
           THEN /\ thr' = [thr EXCEPT ![PredThread] = IdleThread]
                /\ UNCHANGED processing
           ELSE /\ processing' = processing \cup {id}
                /\ thr' = [thr EXCEPT ![PredThread] =
                             [IdleThread EXCEPT !.pc = "download", !.track = id]]
    /\ UNCHANGED <<policyVars, fbLock, poolVars, cacheVars, serveDir, active_sessions, pqueue, _stop>>

\* The predictive worker next to the cache's other callers: /predict queues
\* one hint, finished tracks are put, the status handler calls get.
NextHas ==
    \/ \E hints \in StartHints : predict(hints)
    \/ \E t \in Tracks, size \in FinalSizes : cache_put(t, TrackSeconds, size)
    \/ \E t \in Tracks : stream_status(t)
    \/ WorkerHasTest
    \/ WorkerHasLookup
    \/ DecodeOk(PredThread, TrackSeconds)
    \/ DecodeFail(PredThread)
    \/ GenStart(PredThread)
    \/ PoolGet(PredThread)
    \/ PoolLock(PredThread)
    \/ ApplyOk(PredThread)
    \/ ApplyOtherError(PredThread)
    \/ PoolUnlock(PredThread)
    \/ PoolPut(PredThread)
    \/ Finalize(PredThread, 1)
    \/ ServeWrite(PredThread)

SpecHas == InitSession /\ [][NextHas]_vars

\* C21: has never reads the index in the middle of another operation's
\* mutation: the entry it found by its membership test is still in the index
\* when it looks the entry up.
C21_HasSeesNoRemoval ==
    \A w \in Threads : thr[w].pc = "has" => thr[w].track \in IndexIds(index)

\* ------------------------------------------------------------- more about the cache
\* C22: a put of a file larger than the whole capacity leaves the track out of
\* the index.
C22_OversizedNotCached ==
    [][\A t \in Tracks :
         cache_put(t, TrackSeconds, MaxFileSize) => t \notin IndexIds(index')]_vars

\* ------------------------------------------------------------- /clear-cache
\* with cache.lock: cache.index.clear(); cache._save_index()
ClearIndex ==
    /\ thr[ClearThread].pc = "idle"
    /\ index' = <<>>
    /\ cacheDir' = _save_index(<<>>, cacheDir)
    /\ lastUsed' = <<>>
    /\ thr' = [thr EXCEPT ![ClearThread].pc = "rmtree"]
    /\ UNCHANGED <<policyVars, fbLock, poolVars, serveDir, active_sessions, predVars>>

\* shutil.rmtree(CACHE_DIR), outside the lock: the cached files and the index
\* file go
ClearCacheDir ==
    /\ thr[ClearThread].pc = "rmtree"
    /\ cacheDir' = <<>>
    /\ thr' = [thr EXCEPT ![ClearThread].pc = "rmserve"]
    /\ UNCHANGED <<policyVars, fbLock, poolVars, index, lastUsed, serveDir, active_sessions,
                   predVars>>

\* shutil.rmtree(SERVE_DIR), rmtree(CHUNKS_DIR), the three mkdir, and the answer
ClearReturn ==
    /\ thr[ClearThread].pc = "rmserve"
    /\ serveDir' = <<>>
    /\ thr' = [thr EXCEPT ![ClearThread].pc = "idle"]
    /\ UNCHANGED <<policyVars, fbLock, poolVars, cacheVars, active_sessions, predVars>>

\* /clear-cache next to put and get.  The files are small enough for the
\* cache to hold all of them: nothing is evicted, and a cached file disappears
\* only when clear_cache removes it.
NextClear ==
    \/ \E t \in Tracks : cache_put(t, TrackSeconds, 1)
    \/ \E t \in Tracks : stream_status(t)
    \/ ClearIndex
    \/ ClearCacheDir
    \/ ClearReturn

SpecClear == InitSession /\ [][NextClear]_vars

\* C23: when clear_cache returns, every entry of the index has its backing
\* file: the clear deleted no file of an entry that is in the index.
C23_ClearLeavesNoDanglingEntry ==
    [][(thr[ClearThread].pc = "rmserve" /\ thr'[ClearThread].pc = "idle")
         => \A i \in 1..Len(index') : index'[i].path \in DOMAIN cacheDir']_vars

\* ------------------------------------------------------------- the predictive worker alone
\* A CPU host where only /predict is called, one hint at a time: the worker
\* decodes and separates the queued tracks, and the decoder or the model may
\* raise.
NextWorker ==
    \/ \E hints \in StartHints : predict(hints)
    \/ WorkerTake
    \/ DecodeOk(PredThread, TrackSeconds)
    \/ DecodeFail(PredThread)
    \/ GenStart(PredThread)
    \/ PoolGet(PredThread)
    \/ PoolLock(PredThread)
    \/ ApplyOk(PredThread)
    \/ ApplyOtherError(PredThread)
    \/ PoolUnlock(PredThread)
    \/ PoolPut(PredThread)
    \/ Finalize(PredThread, 1)
    \/ ServeWrite(PredThread)

SpecWorker == InitSession /\ [][NextWorker]_vars

\* the predictive worker is inside process_full_track_sync
WorkerBusy == thr[PredThread].pc \notin {"idle", "has", "queue_get", "exited"}

\* C24: when the predictive worker leaves the pipeline of track t, by return
\* or by exception, t is no longer in the in-flight set and the worker waits
\* on the queue again; unless t is cached by then, enqueue(t) adds an item.
C24_WorkerReleasesTrack ==
    [][\A t \in Tracks :
         (WorkerBusy /\ thr[PredThread].track = t /\ ~WorkerBusy')
            => /\ t \notin processing'
               /\ thr'[PredThread].pc = "idle"
               /\ ~CacheHas(index, cacheDir, t)'
                    => enqueue(pqueue, t, 0)' = Append(pqueue', Item(0, t))]_vars

\* the worker's pipeline raised for a track that has since been queued again:
\* the worker waits on the queue, the track is neither in flight nor cached
C24_Witness ==
    /\ thr[PredThread].pc = "idle"
    /\ thr[PredThread].err
    /\ thr[PredThread].track \in Tracks
    /\ thr[PredThread].track \notin processing
    /\ ~CacheHas(index, cacheDir, thr[PredThread].track)
    /\ Waiting(pqueue, thr[PredThread].track) = 1

\* ------------------------------------------------------------- PredictiveProcessor.stop
\* the sentinel stop() puts into the queue (None)
None == [priority |-> 0, track_id |-> NoTrack]

\* stop(): self._stop = True; self.queue.put(None)
stop ==
    /\ ~_stop
    /\ _stop' = TRUE
    /\ pqueue' = Append(pqueue, None)
    /\ UNCHANGED <<policyVars, fbLock, poolVars, cacheVars, serveDir, active_sessions,
                   processing, thr>>

\* _worker at the grain of its loop.  `while not self._stop`: the worker goes
\* on to queue.get, or leaves the loop and the thread ends
WorkerLoop ==
    /\ thr[PredThread].pc = "idle"
    /\ thr' = [thr EXCEPT ![PredThread].pc = IF _stop THEN "exited" ELSE "queue_get"]
    /\ UNCHANGED <<policyVars, fbLock, poolVars, cacheVars, serveDir, active_sessions, predVars>>

\* item = self.queue.get(timeout=1) returns the oldest item: None sends the
\* worker back to the loop test, a track that is in flight or cached is
\* skipped, any other track is processed
WorkerGet ==
    /\ thr[PredThread].pc = "queue_get"
    /\ pqueue # <<>>
    /\ pqueue' = Tail(pqueue)
    /\ LET id == Head(pqueue).track_id
       IN  IF Head(pqueue) = None \/ id \in processing \/ CacheHas(index, cacheDir, id)
           THEN /\ thr' = [thr EXCEPT ![PredThread].pc = "idle"]
                /\ UNCHANGED processing
           ELSE /\ processing' = processing \cup {id}
                /\ thr' = [thr EXCEPT ![PredThread] =
                             [IdleThread EXCEPT !.pc = "download", !.track = id]]
    /\ UNCHANGED <<policyVars, fbLock, poolVars, cacheVars, serveDir, active_sessions, _stop>>

\* queue.get raises queue.Empty after one second: continue
WorkerTimeout ==
    /\ thr[PredThread].pc = "queue_get"
    /\ pqueue = <<>>
    /\ thr' = [thr EXCEPT ![PredThread].pc = "idle"]
    /\ UNCHANGED <<policyVars, fbLock, poolVars, cacheVars, serveDir, active_sessions, predVars>>

\* A CPU host where /predict queues one hint at a time and stop() is called
\* once, at any moment.
NextStop ==
    \/ \E hints \in StartHints : predict(hints)
    \/ stop
    \/ WorkerLoop
    \/ WorkerGet
    \/ WorkerTimeout
    \/ DecodeOk(PredThread, TrackSeconds)
    \/ DecodeFail(PredThread)
    \/ GenStart(PredThread)
    \/ PoolGet(PredThread)
    \/ PoolLock(PredThread)
    \/ ApplyOk(PredThread)
    \/ ApplyOtherError(PredThread)
    \/ PoolUnlock(PredThread)
    \/ PoolPut(PredThread)
    \/ Finalize(PredThread, 1)
    \/ ServeWrite(PredThread)

SpecStop == InitSession /\ [][NextStop]_vars

\* C25: once stop() has been called the worker begins no track.
C25_NoTrackBegunAfterStop ==
    [][_stop => processing' \subseteq processing]_vars

\* the worker thread is scheduled as long as it can take a step
WorkerStep ==
    \/ WorkerLoop
    \/ WorkerGet
    \/ WorkerTimeout
    \/ DecodeOk(PredThread, TrackSeconds)
    \/ DecodeFail(PredThread)
    \/ GenStart(PredThread)
    \/ PoolGet(PredThread)
    \/ PoolLock(PredThread)
    \/ ApplyOk(PredThread)
    \/ ApplyOtherError(PredThread)
    \/ PoolUnlock(PredThread)
    \/ PoolPut(PredThread)
    \/ Finalize(PredThread, 1)
    \/ ServeWrite(PredThread)

SpecStopFair == SpecStop /\ WF_vars(WorkerStep)

\* the other half of C25: after stop() the worker leaves its loop
WorkerExitsAfterStop == _stop ~> (thr[PredThread].pc = "exited")

\* ------------------------------------------------------------- the first chunk's URL
\* the id in the first_chunk_url of /stream/start's answer for a track that
\* is not cached: /serve/<track_id>_first
StartFirstChunk(t) == t \o <<"_first">>

\* C26: once a run has written its first chunk and announced it, GET on the
\* first_chunk_url that /stream/start answered with sends a file.
C26_FirstChunkUrlServable ==
    \A w \in SessionThreads :
        (InRun(w) /\ thr[w].first > 0) => serve_audio(StartFirstChunk(thr[w].track)) # NoFile

\* ------------------------------------------------------------- process_chunk, call by call
\* thread w is in its first call of apply_model for the current chunk
FirstCall(w) == thr[w].pc = "apply"

\* thread w is between a device error of the first call and the end of the
\* retry: in trigger_gpu_fallback, or about to call apply_model on the CPU
AfterDeviceError(w) == thr[w].pc \in {"fb", "fb_device", "fb_mode", "fb_chunk", "retry"}

\* the chunk of thread w raised and the exception is on its way out of
\* generate_streaming_chunks (through the finally that releases the handle)
Propagating(w) == thr[w].err /\ thr[w].pc \in {"unlock", "put"}

\* C27: per chunk, apply_model is called once, and a second time only after a
\* device error of the first call; the second call runs on the CPU with
\* GPU_FAILED set and the instance moved to the CPU; an error of the second
\* call, or another error of the first, goes out of the generator and ends the
\* run without a further call; after a retry that succeeded the run goes on
\* with the chunk's result and the next chunk.
C27_RetryOnceOnCpu ==
    [][\A w \in SessionThreads :
         /\ FirstCall(w)' => (FirstCall(w) \/ thr[w].pc = "lock")
         /\ (AfterDeviceError(w)' /\ ~AfterDeviceError(w))
              => (FirstCall(w) /\ thr[w].dev = "cuda" /\ thr'[w].pc = "fb"
                  /\ thr'[w].cidx = thr[w].cidx)
         /\ (thr[w].pc = "retry" /\ thr'[w].pc # "retry")
              => /\ thr'[w].pc = "unlock"
                 /\ thr'[w].dev = "cpu"
                 /\ GPU_FAILED
                 /\ modelDevice'[thr[w].midx] = "cpu"
                 /\ thr'[w].cidx = thr[w].cidx
         /\ Propagating(w)
              => (Propagating(w)' \/ (thr'[w].pc = "cleanup" /\ thr'[w].err))
         /\ (thr[w].pc = "put" /\ ~thr[w].err /\ thr'[w].pc # "put"
               /\ chunk_len(thr[w].cidx, thr[w].csamp, overlap_samples, thr[w].total) >= 0)
              => (thr'[w].pc = "progress" /\ thr'[w].cidx = thr[w].cidx)]_vars

\* the only run so far is in its second chunk after a retry that succeeded on
\* its first: the fallback was triggered and the instance is on the CPU
C27_Witness ==
    \E w \in SessionThreads :
        /\ \A v \in SessionThreads \ {w} : thr[v].pc = "idle"
        /\ FirstCall(w)
        /\ thr[w].cidx = 1
        /\ thr[w].dev = "cpu"
        /\ GPU_FAILED
        /\ modelDevice[thr[w].midx] = "cpu"
        /\ ~thr[w].err

\* ------------------------------------------------------------- eviction order
\* the position of id in the history of uses (higher: used more recently)
UsePos(seq, id) == CHOOSE i \in 1..Len(seq) : seq[i] = id

\* the ids that a put of a file of this size pops from the index
Evicted(size) ==
    IndexIds(index) \ IndexIds(_evict_if_needed(index, cacheDir, size, MaxSizeGb)[1])

\* sizes of which two or three fit into the cache
LruSizes == {MaxSizeGb \div 3, MaxSizeGb \div 2}

\* put and get called in any order, for files of these sizes
NextLru ==
    \/ \E t \in Tracks, size \in LruSizes : cache_put(t, TrackSeconds, size)
    \/ \E t \in Tracks : stream_status(t)

SpecLru == InitSession /\ [][NextLru]_vars

\* C28: every entry a put evicts was last used (put, or returned by get)
\* before every entry of the old index that the put does not evict.
C28_EvictsLeastRecentlyUsed ==
    [][\A t \in Tracks, size \in LruSizes :
         cache_put(t, TrackSeconds, size)
            => \A e \in Evicted(size), r \in IndexIds(index) \ Evicted(size) :
                 /\ UsePos(lastUsed, e) < UsePos(lastUsed, r)
                 /\ r \in IndexIds(index')]_vars

\* a put has evicted an entry and kept a more recently used one: the kept
\* entry, which is not the one just inserted, has lost its file to the
\* eviction of an older entry with the same sanitized file name
C28_Witness ==
    /\ Len(index) >= 2
    /\ lastUsed = KeyOrder(index)
    /\ \E i \in 1..(Len(index) - 1) : index[i].path \notin DOMAIN cacheDir

\* ------------------------------------------------------------- the chunk windows of a run
\* C29: the window [start, end) that a run hands to process_chunk is not
\* empty and lies inside the track; the first window starts at 0, the last
\* ends at the track's end, and a window is overlap_samples long in common
\* with its successor unless the successor is the shortened last window.
C29_WindowsCoverTrack ==
    \A w \in SessionThreads :
        thr[w].pc = "apply" =>
            LET t == thr[w]
                c == t.cidx
                s == start_idx(c, t.csamp, overlap_samples)
                e == end_idx(c, t.csamp, overlap_samples, t.total)
                lastShort == c + 2 = t.nchunks
                             /\ chunk_len(c + 1, t.csamp, overlap_samples, t.total) < t.csamp
            IN  /\ 0 <= s /\ s < e /\ e <= t.total
                /\ c = 0 => s = 0
                /\ c + 1 = t.nchunks => e = t.total
                /\ (c + 1 < t.nchunks /\ ~lastShort)
                     => e - start_idx(c + 1, t.csamp, overlap_samples) = overlap_samples

\* ------------------------------------------------------------- crossfade weights
\* Weights are counted in units of 1 / (overlap_samples - 1), the step of
\* torch.linspace over overlap_samples points: a weight of 1 is FadeScale.
FadeScale == overlap_samples - 1

\* fade_in = torch.linspace(0, 1, overlap_samples), fade_out = torch.linspace(1, 0, overlap_samples)
fade_in(k) == k
fade_out(k) == FadeScale - k

\* chunk_weight of chunk c at the track position p inside its window: ones,
\* the first overlap_samples replaced by fade_in if the chunk is not the first,
\* then the last overlap_samples replaced by fade_out if it is not the last,
\* both only for a chunk longer than overlap_samples
chunk_weight(c, p, cs, os, total) ==
    LET s == start_idx(c, cs, os)
        e == end_idx(c, cs, os, total)
        len == e - s
        fade_start == Max(0, len - os)
    IN  IF e < total /\ len > os /\ p - s >= fade_start THEN fade_out(p - s - fade_start)
        ELSE IF s > 0 /\ len > os /\ p - s < os THEN fade_in(p - s)
        ELSE FadeScale

\* position p lies in the window of chunk c
Covers(c, p, cs, os, total) ==
    start_idx(c, cs, os) <= p /\ p < end_idx(c, cs, os, total)

\* weight[p] after the chunks 0..c have been accumulated
RECURSIVE weight(_, _, _, _, _)
weight(c, p, cs, os, total) ==
    IF c < 0 THEN 0
    ELSE weight(c - 1, p, cs, os, total)
         + (IF Covers(c, p, cs, os, total) THEN chunk_weight(c, p, cs, os, total) ELSE 0)

\* C30: when a chunk has been accumulated and the prefix up to its end is about
\* to be normalized and emitted, the accumulated weight is positive at every
\* position of the prefix that a processed chunk covers.
C30_CoveredWeightPositive ==
    \A w \in SessionThreads :
        thr[w].pc = "progress" =>
            LET t == thr[w]
            IN  \A p \in 0..(end_idx(t.cidx, t.csamp, overlap_samples, t.total) - 1) :
                    (\E c \in 0..t.cidx : Covers(c, p, t.csamp, overlap_samples, t.total))
                       => weight(t.cidx, p, t.csamp, overlap_samples, t.total) > 0

\* ------------------------------------------------------------- waiting for a handle
\* the threads that run generate_streaming_chunks
Workers == SessionThreads \cup {PredThread}

\* one step of thread w's pipeline, from the decode to the end of its run
PipelineStep(w) ==
    \/ SetDownloading(w)
    \/ DecodeOk(w, TrackSeconds)
    \/ DeleteStale(w)
    \/ GenStart(w)
    \/ PoolGet(w)
    \/ PoolLock(w)
    \/ ApplyOk(w)
    \/ ApplyOtherError(w)
    \/ PoolUnlock(w)
    \/ PoolPut(w)
    \/ OnProgress(w)
    \/ WriteProgressive(w)
    \/ FirstChunkReady(w)
    \/ Finalize(w, 1)
    \/ ServeWrite(w)
    \/ Cleanup(w)

\* CUDA hosts with one model instance or with MaxInstances: foreground
\* sessions of one track and the predictive worker, fed by /predict with
\* another track whenever its queue is empty, share the pool; apply_model
\* returns or raises an error that is not a device error.
NextAcquire ==
    \/ stream_start(TrackName(1), <<>>)
    \/ pqueue = <<>> /\ predict(<<TrackName(2)>>)
    \/ WorkerTake
    \/ \E w \in Workers : PipelineStep(w)

\* Every thread keeps being scheduled (apply_model terminates, by return or by
\* exception), and a thread blocked in available.get() gets an index when
\* indexes keep coming back to the queue.
FairAcquire ==
    \A w \in Workers : WF_vars(PipelineStep(w)) /\ SF_vars(PoolGet(w))

SpecAcquire == InitPool /\ [][NextAcquire]_vars /\ FairAcquire

\* the handles whose lock thread w holds
Held(w) == {h \in Handles : locks[h] = w}

Producing(w, t) ==
    /\ thr[w].track = t
    /\ IF IsSession(w) THEN InRun(w) ELSE w = PredThread /\ WorkerBusy

\* C32: at most one pipeline runs for a track at any time.
C32_OnePipelinePerTrack ==
    \A t \in Tracks : Cardinality({w \in Workers : Producing(w, t)}) <= 1

\* ------------------------------------------------------------- the entry a put inserts
\* C33: after put(t) the track is in the index and its file exists: has(t).
C33_PutKeepsItsEntry ==
    [][\A t \in Tracks, size \in LruSizes :
         cache_put(t, TrackSeconds, size) => CacheHas(index, cacheDir, t)']_vars

\* ------------------------------------------------------------- the status of a failed run
\* C34: once a foreground run of a track has ended with an error, its session
\* entry is gone and no pipeline is running for the track (nor for a track
\* whose files have the same names), /stream/status does not answer
\* "processing" for the track.
C34_FailedRunNotProcessing ==
    \A w \in SessionThreads :
        (/\ thr[w].pc = "done"
         /\ thr[w].err
         /\ thr[w].track \notin DOMAIN active_sessions
         /\ \A v \in Workers, t \in Tracks :
                StreamName(t) = StreamName(thr[w].track) => ~Producing(v, t))
            => StatusOf(thr[w].track) # "processing"

\* ------------------------------------------------------------- the notifications of a run
\* Start requests for one track, each after the previous run has ended, and
\* the predictive worker on another track; the decoder and the model may
\* fail in either.
NextNotify ==
    \/ NoRun /\ stream_start(TrackName(1), <<>>)
    \/ pqueue = <<>> /\ predict(<<TrackName(2)>>)
    \/ WorkerTake
    \/ \E w \in Workers : PipelineStep(w) \/ DecodeFail(w)

SpecNotify == InitSession /\ [][NextNotify]_vars

\* the run of session thread w has emitted 'complete' (line 1040)
EmittedComplete(w) == IsSession(w) /\ thr[w].complete

\* the run of session thread w has emitted 'error' (line 1052)
EmittedError(w) == IsSession(w) /\ thr[w].err /\ thr[w].pc \in {"cleanup", "done"}

\* C35: a foreground run that has ended has emitted exactly one of
\* 'complete' and 'error', a run still going has emitted neither, after the
\* terminal notification the thread emits nothing more (its only step is the
\* cleanup timer), and the predictive worker emits no notification at all.
C35_OneTerminalNotification ==
    /\ [](\A w \in SessionThreads :
            /\ ~(EmittedComplete(w) /\ EmittedError(w))
            /\ thr[w].pc \in {"cleanup", "done"} => (EmittedComplete(w) \/ EmittedError(w))
            /\ InRun(w) => ~(EmittedComplete(w) \/ EmittedError(w)))
    /\ [][\A w \in SessionThreads :
            (EmittedComplete(w) \/ EmittedError(w)) =>
                \/ thr'[w] = thr[w]
                \/ thr'[w] = [thr[w] EXCEPT !.pc = "done"]]_vars
    /\ [](/\ thr[PredThread].prog = 0
          /\ thr[PredThread].first = 0
          /\ thr[PredThread].upd = 0
          /\ ~thr[PredThread].complete)

\* one run has ended with 'error' after its first chunk, a later one with
\* 'complete', and the predictive worker has a track in hand
C35_Witness ==
    /\ \E w, v \in SessionThreads :
          /\ EmittedError(w) /\ thr[w].first = 1 /\ thr[w].pc = "done"
          /\ EmittedComplete(v) /\ thr[v].pc = "done"
    /\ WorkerBusy

====
